---- MODULE Spec2Model ----
(***************************************************************************)
(* Game move-quality analysis pipeline of ChessTutorV2:                    *)
(* GameAnalysisPanel.analyzeGame (replay, two cloud evaluations per ply,   *)
(* classification, record accumulation) and getGameSummary, the page that  *)
(* opens and closes the panel, the searches and the line parser of         *)
(* ChessAiTutor, and the two boards ChessTutorGame and ChessTutor.         *)
(*                                                                         *)
(* An action is one run-to-completion segment of the JavaScript event      *)
(* loop: the code between two awaits.                                      *)
(***************************************************************************)
EXTENDS Integers, Sequences, FiniteSets, TLC

(***************************************************************************)
(* Bounds of the model.                                                    *)
(***************************************************************************)
\* longest recorded game replayed by the loop specification
MaxPlies == 2
\* the classifier specification draws evalBefore from -MaxCpBefore..MaxCpBefore
MaxCpBefore == 2
\* the classifier specification draws evalAfter from -MaxCpAfter..MaxCpAfter
MaxCpAfter == 360
\* the service reports mates in 1..MaxMate moves, for either side
MaxMate == 2

\* JavaScript's undefined, for the optional string fields
Undefined == "undefined"

(***************************************************************************)
(* Inputs.                                                                 *)
(***************************************************************************)
\* The recorded moves a game may consist of.  `legal` is the answer of the
\* rules oracle (chess.js) when the move is tried in its recorded position.
MoveCatalogue ==
    { [san |-> "e4",   from |-> "e2", to |-> "e4", promotion |-> "",  legal |-> TRUE],
      [san |-> "e8=Q", from |-> "e7", to |-> "e8", promotion |-> "q", legal |-> TRUE],
      [san |-> "Qh5",  from |-> "d1", to |-> "h5", promotion |-> "",  legal |-> FALSE] }

MoveLists == UNION { [1..n -> MoveCatalogue] : n \in 1..MaxPlies }

\* One principal variation of a cloud-eval answer: either {cp, moves} or
\* {mate, moves}.  `score` says which of the two keys the JSON object has.
CpPv(c, ms) == [score |-> "cp", value |-> c, moves |-> ms]
MatePv(n, ms) == [score |-> "mate", value |-> n, moves |-> ms]

\* What one fetch + response.json() can produce.
Thrown == [kind |-> "throw", status |-> 0, pvs |-> <<>>]
NotFound == [kind |-> "json", status |-> 404, pvs |-> <<>>]
Answer(pv) == [kind |-> "json", status |-> 200, pvs |-> <<pv>>]

BestLines == { <<"e2e4", "e7e5">>, <<"e7e8q">>, <<"e7e8">> }

\* the answers of the remote service in the loop specification
Responses ==
    {Thrown, NotFound}
      \cup { Answer(CpPv(c, ms)) : c \in {-250, 0}, ms \in {<<"e2e4", "e7e5">>, <<"e7e8q">>} }
      \cup { Answer(MatePv(-1, <<"e2e4", "e7e5">>)) }

\* the answers of the remote service in the classifier specification
DenseBefore ==
    {NotFound}
      \cup { Answer(CpPv(c, ms)) : c \in -MaxCpBefore..MaxCpBefore, ms \in BestLines }
      \cup { Answer(MatePv(n, <<"e7e8">>)) : n \in 1..MaxMate }

DenseAfter ==
    {Thrown, NotFound}
      \cup { Answer(CpPv(c, <<"e7e8">>)) : c \in -MaxCpAfter..MaxCpAfter }
      \cup { Answer(MatePv(n, <<"e7e8">>)) : n \in (-MaxMate..MaxMate) \ {0} }

(***************************************************************************)
(* State.                                                                  *)
(***************************************************************************)
VARIABLES
    moves,            \* props.moves: the recorded game (with the oracle's answers)
    strictMove,       \* chess.js build: TRUE = move() throws on an illegal move,
                      \*                 FALSE = move() returns null
    pc,               \* where analyzeGame is suspended
    i,                \* loop counter of analyzeGame (0-based ply)
    replayGame,       \* history of replayGame: indices (1-based) of the moves applied
    analysisResults,  \* the local list of records
    data,             \* answer to the evaluation request before the move
    dataAfter,        \* answer to the evaluation request after the move
    moveResult,       \* what replayGame.move() returned
    evalChange,       \* the local evalChange of the last classified ply
    requests,         \* evaluation requests issued in this run: <<ply, fen>>
    recordPly,        \* history: the loop counter at which each record was pushed
    unavailable,      \* history: plies with an evaluation that threw or had no pvs
    rejected,         \* history: plies whose move the rules oracle rejected
    analysis,         \* React state `analysis`
    isAnalyzing,      \* React state `isAnalyzing`
    gameSummary,      \* React state `gameSummary`
    spacing,          \* history, one entry per request: TRUE if the rate-limiting
                      \* delay ran between the previous answer and this request
    resultGame,       \* getGameSummary: the replayed game and the oracle's verdict
    prompt,           \* getGameSummary: what is posted to the narrative generator
    summaryStatus,    \* history: how the last narrative request ended
    showAnalysis,     \* ChessTutorPage state `showAnalysis`: the panel is mounted
    orphans,          \* runs of analyzeGame whose panel was closed meanwhile
    closedRequests,   \* history: <<ply at close, ply>> of each evaluation
                      \* request issued by a run after its panel was closed
    stockfish,        \* ChessAiTutor state `stockfish`: the worker exists
    tutorIsAnalyzing, \* ChessAiTutor state `isAnalyzing`
    isLoading,        \* ChessAiTutor state `isLoading`
    topMoves,         \* ChessAiTutor state `topMoves`
    hints,            \* the calls of getPositionAnalysis that have not returned
    inFlight,         \* worker: the searches posted and not yet completed
    requested,        \* history: number of calls of analyzePosition
    posted,           \* history: the calls whose search command was posted
    fed,              \* history: the lines handed to handleStockfishMessage
    game,             \* ChessTutorGame state `game`: the position
    fen,              \* ChessTutorGame state `fen`: the position displayed
    playerColor,      \* ChessTutorGame state `playerColor`
    redoStack,        \* ChessTutorGame state `redoStack`
    fenHistory,       \* ChessTutorGame state `fenHistory`
    aiTimer,          \* ChessTutorGame: the 500 ms timer of the game-loop effect
    lastOps,          \* history: the last two handlers that changed the game
    undoSnapshot,     \* history: fen, fenHistory, redoStack before the last Undo
    lastMove,         \* history: who moved last, and in which state
    trainerGame,      \* ChessTutor: the one mutable `game`
    trainerFen,       \* ChessTutor state `fen`
    pendingReplies,   \* ChessTutor: the 500 ms timers of onDrop not yet fired
    humanMoved,       \* history: the colours moved by onDrop
    randomMoved       \* history: the colours moved by makeRandomMove

gameVars == <<game, fen, playerColor, redoStack, fenHistory, aiTimer, lastOps,
              undoSnapshot, lastMove>>

trainerVars == <<trainerGame, trainerFen, pendingReplies, humanMoved, randomMoved>>

boardVars == <<gameVars, trainerVars>>

tutorVars == <<stockfish, tutorIsAnalyzing, isLoading, topMoves, hints, inFlight,
               requested, posted, fed>>

vars == <<moves, strictMove, pc, i, replayGame, analysisResults, data, dataAfter,
          moveResult, evalChange, requests, recordPly, unavailable, rejected,
          analysis, isAnalyzing, gameSummary, spacing, resultGame, prompt,
          summaryStatus, showAnalysis, orphans, closedRequests, tutorVars, boardVars>>

NoMove == [color |-> "w", from |-> "", to |-> "", promotion |-> ""]

(***************************************************************************)
(* Pure parts of analyzeGame.                                              *)
(***************************************************************************)
\* data.pvs?.[0]?.cp || 0
CpOrZero(d) ==
    IF d.pvs # <<>> /\ Head(d.pvs).score = "cp" THEN Head(d.pvs).value ELSE 0

\* data.pvs?.[0]?.moves.split(' ')[0]
FirstMove(d) ==
    IF d.pvs = <<>> THEN Undefined
    ELSE IF Head(d.pvs).moves = <<>> THEN "" ELSE Head(Head(d.pvs).moves)

\* moveResult.from + moveResult.to + (moveResult.promotion || '')
ActualMoveUci(mr) == mr.from \o mr.to \o mr.promotion

\* variant: the sign is not flipped for Black
PerspectiveWhiteOnly(mr) == 1

Perspective(mr) == IF mr.color = "w" THEN 1 ELSE -1

EvalChange(evalAfter, evalBefore, mr) == (evalAfter - evalBefore) * Perspective(mr)

\* variant: exclusive lower bounds
ClassifyExclusive(best, actual, ec) ==
    IF best = actual THEN "brilliant"
    ELSE IF ec > -10 THEN "great"
    ELSE IF ec > -40 THEN "good"
    ELSE IF ec > -100 THEN "inaccuracy"
    ELSE IF ec > -200 THEN "mistake"
    ELSE "blunder"

\* variant: the engine-best test comes after the numeric tiers that lose nothing
ClassifyBestLast(best, actual, ec) ==
    IF ec < -200 THEN "blunder"
    ELSE IF ec < -100 THEN "mistake"
    ELSE IF ec < -40 THEN "inaccuracy"
    ELSE IF best = actual THEN "brilliant"
    ELSE IF ec >= -10 THEN "great"
    ELSE "good"

Classify(best, actual, ec) ==
    IF best = actual THEN "brilliant"
    ELSE IF ec >= -10 THEN "great"
    ELSE IF ec >= -40 THEN "good"
    ELSE IF ec >= -100 THEN "inaccuracy"
    ELSE IF ec >= -200 THEN "mistake"
    ELSE "blunder"

Abs(x) == IF x < 0 THEN -x ELSE x

\* Math.round(n / 100): the nearest integer, a tie going towards +Infinity
MathRound100(n) == (2 * n + 100) \div 200

\* variant: the annotation starts at a loss of exactly one pawn
CommentInclusive(ec) ==
    IF ec <= -100
    THEN "Lost " \o ToString(Abs(MathRound100(ec))) \o " pawns of advantage"
    ELSE Undefined

Comment(ec) ==
    IF ec < -100
    THEN "Lost " \o ToString(Abs(MathRound100(ec))) \o " pawns of advantage"
    ELSE Undefined

\* Math.floor(i / 2) + 1
MoveNumber(k) == (k \div 2) + 1

\* replayGame.fen(): the position is identified by the moves that led to it
Fen(g) == [k \in 1..Len(g) |-> moves[g[k]].san]

\* side to move in the replay position
Turn(g) == IF Len(g) % 2 = 0 THEN "w" ELSE "b"

\* the replay position is the recorded position before ply k (0-based)
InSync(g, k) == g = [j \in 1..k |-> j]

\* the answers the rules oracle can give to replayGame.move(moves[k])
OracleAccepts(g, k) == IF InSync(g, k) THEN {moves[k + 1].legal} ELSE BOOLEAN

ClassifiedRecord(k, g, evalAfter, evalBefore, best, mr) ==
    LET ec == EvalChange(evalAfter, evalBefore, mr) IN
    [moveNumber |-> MoveNumber(k),
     move |-> moves[k + 1].san,
     fen |-> Fen(g),
     evaluation |-> evalAfter,
     classification |-> Classify(best, ActualMoveUci(mr), ec),
     comment |-> Comment(ec)]

\* the catch block: a record only if the replay history is not empty
CatchResults(results, k, g) ==
    IF g = <<>> THEN results
    ELSE Append(results,
                [moveNumber |-> MoveNumber(k),
                 move |-> moves[k + 1].san,
                 fen |-> Fen(g),
                 evaluation |-> 0,
                 classification |-> "good",
                 comment |-> Undefined])

\* the plies of the records after the catch block
CatchPly(plies, k, g) == IF g = <<>> THEN plies ELSE Append(plies, k)

\* the evaluation is unavailable: the request threw, or the status is not a
\* success, or the payload has no variation
Unavailable(d) == d.kind = "throw" \/ d.status # 200 \/ d.pvs = <<>>

(***************************************************************************)
(* ChessAiTutor after its mount effect: the worker exists, nothing asked.  *)
(***************************************************************************)
TutorMounted ==
    /\ stockfish = TRUE
    /\ tutorIsAnalyzing = FALSE
    /\ isLoading = FALSE
    /\ topMoves = <<>>
    /\ hints = <<>>
    /\ inFlight = <<>>
    /\ requested = 0
    /\ posted = <<>>
    /\ fed = <<>>

(***************************************************************************)
(* The two boards.  A position is the sequence of the moves that led to    *)
(* it, each one of Choices; White is to move after an even number.         *)
(***************************************************************************)
MaxGamePlies == 4

Choices == {1, 2}

\* game.turn()
TurnOf(p) == IF Len(p) % 2 = 0 THEN "w" ELSE "b"

\* game.isGameOver(): the positions the rules oracle calls finished
IsGameOver(p) == Len(p) >= 2 /\ p[Len(p)] = 2 /\ p[Len(p) - 1] = 2

\* variant: the effect sets a timer and never clears one
EffectKeepsTimer(g, colour) ==
    IF ~IsGameOver(g) /\ TurnOf(g) # colour
    THEN [pending |-> TRUE, game |-> g, playerColor |-> colour]
    ELSE aiTimer

\* the game-loop effect after a render with game g and playerColor colour:
\* the cleanup of the previous run, then a timer if it is the AI's turn
Effect(g, colour) ==
    [pending |-> ~IsGameOver(g) /\ TurnOf(g) # colour, game |-> g, playerColor |-> colour]

NoLastMove == [kind |-> "none", turn |-> "w", playerColor |-> "w", over |-> FALSE, stale |-> FALSE]

\* ChessTutorGame and ChessTutor after their first render
BoardsMounted ==
    /\ game = <<>>
    /\ fen = <<>>
    /\ playerColor = "w"
    /\ redoStack = <<>>
    /\ fenHistory = << <<>> >>
    /\ aiTimer = [pending |-> FALSE, game |-> <<>>, playerColor |-> "w"]
    /\ lastOps = <<>>
    /\ undoSnapshot = [fen |-> <<>>, fenHistory |-> << <<>> >>, redoStack |-> <<>>]
    /\ lastMove = NoLastMove
    /\ trainerGame = <<>>
    /\ trainerFen = <<>>
    /\ pendingReplies = 0
    /\ humanMoved = {}
    /\ randomMoved = {}

(***************************************************************************)
(* Pure parts of getGameSummary.                                           *)
(***************************************************************************)
\* the histories resultGame can have after moveList.forEach(move), from
\* history g and list index k (0-based), when move() does not throw
RECURSIVE ReplayAll(_, _)
ReplayAll(g, k) ==
    IF k >= Len(moves) THEN {g}
    ELSE UNION { ReplayAll(IF ok THEN Append(g, k + 1) ELSE g, k + 1) :
                 ok \in OracleAccepts(g, k) }

\* a.classification counted by analysisData.filter(...).length
CountTier(results, t) ==
    Cardinality({k \in 1..Len(results) : results[k].classification = t})

IsKeyMoment(a) == a.classification \in {"mistake", "blunder", "brilliant"}

\* one line of the "Key moments" block
KeyLine(a) ==
    [moveNumber |-> a.moveNumber, move |-> a.move,
     classification |-> a.classification, comment |-> a.comment]

\* s.slice(0, 5)
Slice5(s) == SubSeq(s, 1, IF Len(s) < 5 THEN Len(s) ELSE 5)

\* variant: the list is cut to five records before it is filtered
KeyMomentsSliceFirst(results) ==
    LET kept == SelectSeq(Slice5(results), IsKeyMoment)
    IN [k \in 1..Len(kept) |-> KeyLine(kept[k])]

KeyMoments(results) ==
    LET kept == Slice5(SelectSeq(results, IsKeyMoment))
    IN [k \in 1..Len(kept) |-> KeyLine(kept[k])]

\* variant: the side to move is named as the winner
ResultLabelMoverWins(rg) ==
    IF rg.isCheckmate
    THEN "Checkmate - " \o (IF Turn(rg.history) = "w" THEN "White" ELSE "Black") \o " wins"
    ELSE IF rg.isDraw THEN "Draw" ELSE "Game Over"

ResultLabel(rg) ==
    IF rg.isCheckmate
    THEN "Checkmate - " \o (IF Turn(rg.history) = "w" THEN "Black" ELSE "White") \o " wins"
    ELSE IF rg.isDraw THEN "Draw" ELSE "Game Over"

BuildPrompt(results, rg) ==
    [result |-> ResultLabel(rg),
     totalMoves |-> Len(results),
     counts |-> [t \in {"inaccuracy", "mistake", "blunder"} |-> CountTier(results, t)],
     keyMoments |-> KeyMoments(results)]

NoResultGame == [history |-> <<>>, isCheckmate |-> FALSE, isDraw |-> FALSE]

NoPrompt ==
    [result |-> "", totalMoves |-> 0,
     counts |-> [t \in {"inaccuracy", "mistake", "blunder"} |-> 0],
     keyMoments |-> <<>>]

(***************************************************************************)
(* analyzeGame.                                                            *)
(***************************************************************************)
\* getGameSummary replays the whole list on a fresh game before it posts its
\* request; a chess.js whose move() throws makes it reject at the first
\* illegal move, and no request is posted
SummaryReplayThrows == strictMove /\ \E k \in 1..Len(moves) : ~moves[k].legal

\* getGameSummary up to its fetch: the replay, the verdict of the rules
\* oracle on the final position, the prompt, the request
GetGameSummary(results) ==
    IF SummaryReplayThrows
    THEN /\ pc' = "done"
         /\ UNCHANGED <<resultGame, prompt>>
    ELSE \E h \in ReplayAll(<<>>, 0), cm \in BOOLEAN, dr \in BOOLEAN :
            /\ resultGame' = [history |-> h, isCheckmate |-> cm, isDraw |-> dr]
            /\ prompt' = BuildPrompt(results, resultGame')
            /\ pc' = "awaitSummary"

\* The loop head for counter value k: either the request for the position
\* before ply k is issued, or the loop ends, the results are published and
\* getGameSummary posts its request.
LoopHead(k, results, g) ==
    /\ i' = k
    /\ IF k < Len(moves)
       THEN /\ pc' = "awaitBefore"
            /\ requests' = Append(requests, <<k, Fen(g)>>)
            /\ UNCHANGED <<analysis, isAnalyzing, resultGame, prompt>>
       ELSE /\ analysis' = results
            /\ isAnalyzing' = FALSE
            /\ UNCHANGED requests
            /\ GetGameSummary(results)

\* click on "Start Analysis" (rendered only while idle with no results)
StartAnalysis ==
    /\ showAnalysis
    /\ pc \in {"idle", "done"}
    /\ ~isAnalyzing
    /\ analysis = <<>>
    /\ replayGame' = <<>>
    /\ analysisResults' = <<>>
    /\ i' = 0
    /\ isAnalyzing' = TRUE
    /\ analysis' = analysis
    /\ recordPly' = <<>>
    /\ unavailable' = {}
    /\ rejected' = {}
    /\ IF 0 < Len(moves)
       THEN /\ pc' = "awaitBefore"
            /\ requests' = << <<0, <<>> >> >>
            /\ spacing' = <<TRUE>>
            /\ UNCHANGED <<resultGame, prompt>>
       ELSE /\ requests' = <<>>
            /\ spacing' = <<>>
            /\ GetGameSummary(<<>>)
    /\ UNCHANGED <<moves, strictMove, data, dataAfter, moveResult, evalChange, gameSummary,
                   summaryStatus>>
    /\ UNCHANGED <<showAnalysis, orphans, closedRequests, tutorVars,
                   boardVars>>

\* the first fetch of ply i settles
BeforeResponse(resp) ==
    /\ pc = "awaitBefore"
    /\ data' = resp
    /\ unavailable' = IF Unavailable(resp) THEN unavailable \cup {i} ELSE unavailable
    /\ IF resp.kind = "throw"
       THEN \* catch block, then the next iteration
            /\ analysisResults' = CatchResults(analysisResults, i, replayGame)
            /\ recordPly' = CatchPly(recordPly, i, replayGame)
            /\ LoopHead(i + 1, analysisResults', replayGame)
            /\ UNCHANGED <<replayGame, moveResult, rejected>>
       ELSE \E ok \in OracleAccepts(replayGame, i) :
            IF ok
            THEN /\ replayGame' = Append(replayGame, i + 1)
                 /\ moveResult' = [color |-> Turn(replayGame),
                                   from |-> moves[i + 1].from,
                                   to |-> moves[i + 1].to,
                                   promotion |-> moves[i + 1].promotion]
                 /\ pc' = "awaitAfter"
                 /\ requests' = Append(requests, <<i, Fen(replayGame')>>)
                 /\ UNCHANGED <<i, analysisResults, recordPly, rejected,
                                analysis, isAnalyzing, resultGame, prompt>>
            ELSE \* move() throws (catch block) or returns null (continue)
                 /\ analysisResults' =
                       IF strictMove
                       THEN CatchResults(analysisResults, i, replayGame)
                       ELSE analysisResults
                 /\ recordPly' =
                       IF strictMove
                       THEN CatchPly(recordPly, i, replayGame)
                       ELSE recordPly
                 /\ rejected' = rejected \cup {i}
                 /\ LoopHead(i + 1, analysisResults', replayGame)
                 /\ UNCHANGED <<replayGame, moveResult>>
    /\ spacing' = IF Len(requests') > Len(requests) THEN Append(spacing, FALSE) ELSE spacing
    /\ UNCHANGED <<moves, strictMove, dataAfter, evalChange, gameSummary, summaryStatus>>
    /\ UNCHANGED <<showAnalysis, orphans, closedRequests, tutorVars,
                   boardVars>>

\* the second fetch of ply i settles
AfterResponse(resp) ==
    /\ pc = "awaitAfter"
    /\ dataAfter' = resp
    /\ unavailable' = IF Unavailable(resp) THEN unavailable \cup {i} ELSE unavailable
    /\ IF resp.kind = "throw"
       THEN /\ analysisResults' = CatchResults(analysisResults, i, replayGame)
            /\ recordPly' = CatchPly(recordPly, i, replayGame)
            /\ LoopHead(i + 1, analysisResults', replayGame)
            /\ UNCHANGED evalChange
       ELSE /\ evalChange' = EvalChange(CpOrZero(resp), CpOrZero(data), moveResult)
            /\ analysisResults' =
                   Append(analysisResults,
                          ClassifiedRecord(i, replayGame, CpOrZero(resp), CpOrZero(data),
                                           FirstMove(data), moveResult))
            /\ recordPly' = Append(recordPly, i)
            /\ pc' = "pacing"
            /\ UNCHANGED <<i, requests, analysis, isAnalyzing, resultGame, prompt>>
    /\ spacing' = IF Len(requests') > Len(requests) THEN Append(spacing, FALSE) ELSE spacing
    /\ UNCHANGED <<moves, strictMove, replayGame, data, moveResult, rejected, gameSummary,
                   summaryStatus>>
    /\ UNCHANGED <<showAnalysis, orphans, closedRequests, tutorVars,
                   boardVars>>

\* the 300 ms rate-limiting timer fires
PaceElapsed ==
    /\ pc = "pacing"
    /\ LoopHead(i + 1, analysisResults, replayGame)
    /\ spacing' = IF Len(requests') > Len(requests) THEN Append(spacing, TRUE) ELSE spacing
    /\ UNCHANGED <<moves, strictMove, replayGame, analysisResults, data, dataAfter,
                   moveResult, evalChange, recordPly, unavailable, rejected, gameSummary,
                   summaryStatus>>
    /\ UNCHANGED <<showAnalysis, orphans, closedRequests, tutorVars,
                   boardVars>>

\* how the narrative request can end: an answer with a message, a rejected
\* fetch / unparsable body, an error answer without a message
SummaryOutcomes == {"ok", "throw", "error"}

\* the narrative request of getGameSummary settles
SummaryResponse(outcome) ==
    /\ pc = "awaitSummary"
    /\ pc' = "done"
    /\ summaryStatus' = outcome
    /\ gameSummary' = CASE outcome = "ok" -> "summary"
                        [] outcome = "error" -> Undefined
                        [] OTHER -> gameSummary
    /\ UNCHANGED <<moves, strictMove, i, replayGame, analysisResults, data, dataAfter,
                   moveResult, evalChange, requests, recordPly, unavailable, rejected,
                   analysis, isAnalyzing, spacing, resultGame, prompt>>
    /\ UNCHANGED <<showAnalysis, orphans, closedRequests, tutorVars,
                   boardVars>>

Init ==
    /\ moves \in MoveLists
    /\ strictMove \in BOOLEAN
    /\ pc = "idle"
    /\ i = 0
    /\ replayGame = <<>>
    /\ analysisResults = <<>>
    /\ data = NotFound
    /\ dataAfter = NotFound
    /\ moveResult = NoMove
    /\ evalChange = 0
    /\ requests = <<>>
    /\ recordPly = <<>>
    /\ unavailable = {}
    /\ rejected = {}
    /\ analysis = <<>>
    /\ isAnalyzing = FALSE
    /\ gameSummary = ""
    /\ spacing = <<>>
    /\ resultGame = NoResultGame
    /\ prompt = NoPrompt
    /\ summaryStatus = "none"
    /\ showAnalysis = TRUE
    /\ orphans = <<>>
    /\ closedRequests = {}
    /\ TutorMounted
    /\ BoardsMounted

Next ==
    \/ StartAnalysis
    \/ \E resp \in Responses : BeforeResponse(resp)
    \/ \E resp \in Responses : AfterResponse(resp)
    \/ PaceElapsed
    \/ \E outcome \in SummaryOutcomes : SummaryResponse(outcome)

Spec == Init /\ [][Next]_vars

(***************************************************************************)
(* The classifier specification: analyzeGame is suspended in the second    *)
(* evaluation request of ply 0 (White moved) or ply 1 (Black moved) of a   *)
(* two-ply game, and the answers range over dense sets of evaluations.     *)
(***************************************************************************)
ClassifierGames ==
    { g \in [1..2 -> {m \in MoveCatalogue : m.legal}] : g[1] # g[2] }

\* the quiet answer given to both requests of ply 0 when the run is at ply 1
QuietAnswer == Answer(CpPv(0, <<"e7e8">>))

MoveResultOf(k) ==
    [color |-> IF k % 2 = 0 THEN "w" ELSE "b",
     from |-> moves[k + 1].from,
     to |-> moves[k + 1].to,
     promotion |-> moves[k + 1].promotion]

InitClassifier ==
    /\ moves \in ClassifierGames
    /\ strictMove \in BOOLEAN
    /\ pc = "awaitAfter"
    /\ i \in {0, 1}
    /\ replayGame = [j \in 1..(i + 1) |-> j]
    /\ analysisResults =
          IF i = 0 THEN <<>>
          ELSE << ClassifiedRecord(0, <<1>>, CpOrZero(QuietAnswer), CpOrZero(QuietAnswer),
                                   FirstMove(QuietAnswer), MoveResultOf(0)) >>
    /\ data \in DenseBefore
    /\ dataAfter = IF i = 0 THEN NotFound ELSE QuietAnswer
    /\ moveResult = MoveResultOf(i)
    /\ evalChange = 0
    /\ requests = [k \in 1..(2 * i + 2) |-> << (k - 1) \div 2, Fen(SubSeq(replayGame, 1, k \div 2)) >>]
    /\ recordPly = IF i = 0 THEN <<>> ELSE <<0>>
    /\ unavailable = IF Unavailable(data) THEN {i} ELSE {}
    /\ rejected = {}
    /\ analysis = <<>>
    /\ isAnalyzing = TRUE
    /\ gameSummary = ""
    /\ spacing = [k \in 1..(2 * i + 2) |-> k % 2 = 1]
    /\ resultGame = NoResultGame
    /\ prompt = NoPrompt
    /\ summaryStatus = "none"
    /\ showAnalysis = TRUE
    /\ orphans = <<>>
    /\ closedRequests = {}
    /\ TutorMounted
    /\ BoardsMounted

NextClassifier == \E resp \in DenseAfter : AfterResponse(resp)

SpecClassifier == InitClassifier /\ [][NextClassifier]_vars

(***************************************************************************)
(* The summary specification: the run has classified the last ply of a     *)
(* game of up to MaxSummaryPlies legal moves, every ply answered by the     *)
(* remote service, and goes on to getGameSummary.                          *)
(***************************************************************************)
MaxSummaryPlies == 7

\* what the service made of one ply: the signed change, and whether the move
\* played is the service's first move
PlyOutcomes ==
    { [delta |-> 0, best |-> FALSE], [delta |-> -150, best |-> FALSE],
      [delta |-> -250, best |-> FALSE], [delta |-> 0, best |-> TRUE] }

SummaryGame(n) ==
    [k \in 1..n |-> IF k % 2 = 1 THEN CHOOSE m \in MoveCatalogue : m.san = "e4"
                                   ELSE CHOOSE m \in MoveCatalogue : m.san = "e8=Q"]

BestOf(k, out) == IF out.best THEN ActualMoveUci(MoveResultOf(k)) ELSE "e7e8"

AfterOf(k, out) == out.delta * Perspective(MoveResultOf(k))

SummaryRecord(k, out) ==
    ClassifiedRecord(k, [j \in 1..(k + 1) |-> j], AfterOf(k, out), 0,
                     BestOf(k, out), MoveResultOf(k))

InitSummary ==
    \E n \in 1..MaxSummaryPlies : \E o \in [1..n -> PlyOutcomes] :
        /\ moves = SummaryGame(n)
        /\ strictMove \in BOOLEAN
        /\ pc = "pacing"
        /\ i = n - 1
        /\ replayGame = [j \in 1..n |-> j]
        /\ analysisResults = [k \in 1..n |-> SummaryRecord(k - 1, o[k])]
        /\ data = Answer(CpPv(0, <<BestOf(i, o[n])>>))
        /\ dataAfter = Answer(CpPv(AfterOf(i, o[n]), <<"e7e8">>))
        /\ moveResult = MoveResultOf(i)
        /\ evalChange = o[n].delta
        /\ requests = [k \in 1..(2 * n) |-> << (k - 1) \div 2, Fen(SubSeq(replayGame, 1, k \div 2)) >>]
        /\ recordPly = [k \in 1..n |-> k - 1]
        /\ unavailable = {}
        /\ rejected = {}
        /\ analysis = <<>>
        /\ isAnalyzing = TRUE
        /\ gameSummary = ""
        /\ spacing = [k \in 1..(2 * n) |-> k % 2 = 1]
        /\ resultGame = NoResultGame
        /\ prompt = NoPrompt
        /\ summaryStatus = "none"
        /\ showAnalysis = TRUE
        /\ orphans = <<>>
        /\ closedRequests = {}
        /\ TutorMounted
        /\ BoardsMounted

NextSummary ==
    \/ PaceElapsed
    \/ \E outcome \in SummaryOutcomes : SummaryResponse(outcome)

SpecSummary == InitSummary /\ [][NextSummary]_vars

(***************************************************************************)
(* The page specification: the page opens and closes the panel while runs  *)
(* of analyzeGame go on.  Closing unmounts the panel; the promise of a run  *)
(* that was started is not settled by that, so the run goes on without a   *)
(* panel.  Such a run is kept with what decides its requests: its place in  *)
(* the loop, its counter and its replay.                                   *)
(***************************************************************************)
MaxOrphans == 1

\* the service in the page specification: no answer, or a quiet answer
PanelResponses == {Thrown, QuietAnswer}

Running(p) == p \in {"awaitBefore", "awaitAfter", "pacing"}

Requesting(p) == p \in {"awaitBefore", "awaitAfter"}

RemoveAt(q, n) == [k \in 1..(Len(q) - 1) |-> IF k < n THEN q[k] ELSE q[k + 1]]

\* a newly mounted panel: the useState defaults, no run
PanelMounts ==
    /\ pc' = "idle"
    /\ i' = 0
    /\ replayGame' = <<>>
    /\ analysisResults' = <<>>
    /\ data' = NotFound
    /\ dataAfter' = NotFound
    /\ moveResult' = NoMove
    /\ evalChange' = 0
    /\ requests' = <<>>
    /\ recordPly' = <<>>
    /\ unavailable' = {}
    /\ rejected' = {}
    /\ analysis' = <<>>
    /\ isAnalyzing' = FALSE
    /\ gameSummary' = ""
    /\ spacing' = <<>>
    /\ resultGame' = NoResultGame
    /\ prompt' = NoPrompt
    /\ summaryStatus' = "none"

\* onClose: setShowAnalysis(false); the panel and its state are dropped
ClosePanel ==
    /\ showAnalysis
    /\ Running(pc) => Len(orphans) < MaxOrphans
    /\ showAnalysis' = FALSE
    /\ orphans' = IF Running(pc)
                  THEN Append(orphans, [pc |-> pc, i |-> i, replayGame |-> replayGame,
                                        closedAt |-> i])
                  ELSE orphans
    /\ PanelMounts
    /\ UNCHANGED <<moves, strictMove, closedRequests, tutorVars,
                   boardVars>>

\* handleGameComplete with the same game: setShowAnalysis(true)
HandleGameComplete ==
    /\ ~showAnalysis
    /\ showAnalysis' = TRUE
    /\ UNCHANGED <<moves, strictMove, pc, i, replayGame, analysisResults, data, dataAfter,
                   moveResult, evalChange, requests, recordPly, unavailable, rejected,
                   analysis, isAnalyzing, gameSummary, spacing, resultGame, prompt,
                   summaryStatus, orphans, closedRequests, tutorVars,
                   boardVars>>

panelVars == <<moves, strictMove, pc, i, replayGame, analysisResults, data, dataAfter,
               moveResult, evalChange, requests, recordPly, unavailable, rejected,
               analysis, isAnalyzing, gameSummary, spacing, resultGame, prompt,
               summaryStatus, showAnalysis>>

\* the loop head of the run orphans[n] for counter value k
OrphanLoopHead(n, k) ==
    IF k < Len(moves)
    THEN /\ orphans' = [orphans EXCEPT ![n].pc = "awaitBefore", ![n].i = k]
         /\ closedRequests' = closedRequests \cup {<<orphans[n].closedAt, k>>}
    ELSE /\ orphans' = RemoveAt(orphans, n)
         /\ UNCHANGED closedRequests

OrphanBeforeResponse(n, resp) ==
    /\ orphans[n].pc = "awaitBefore"
    /\ IF resp.kind = "throw"
       THEN OrphanLoopHead(n, orphans[n].i + 1)
       ELSE \E ok \in OracleAccepts(orphans[n].replayGame, orphans[n].i) :
            IF ok
            THEN /\ orphans' = [orphans EXCEPT ![n].pc = "awaitAfter",
                                   ![n].replayGame = Append(@, orphans[n].i + 1)]
                 /\ closedRequests' = closedRequests \cup {<<orphans[n].closedAt, orphans[n].i>>}
            ELSE OrphanLoopHead(n, orphans[n].i + 1)
    /\ UNCHANGED <<panelVars, tutorVars, boardVars>>

OrphanAfterResponse(n, resp) ==
    /\ orphans[n].pc = "awaitAfter"
    /\ IF resp.kind = "throw"
       THEN OrphanLoopHead(n, orphans[n].i + 1)
       ELSE /\ orphans' = [orphans EXCEPT ![n].pc = "pacing"]
            /\ UNCHANGED closedRequests
    /\ UNCHANGED <<panelVars, tutorVars, boardVars>>

OrphanPaceElapsed(n) ==
    /\ orphans[n].pc = "pacing"
    /\ OrphanLoopHead(n, orphans[n].i + 1)
    /\ UNCHANGED <<panelVars, tutorVars, boardVars>>

InitPanel ==
    /\ moves \in MoveLists
    /\ strictMove \in BOOLEAN
    /\ pc = "idle"
    /\ i = 0
    /\ replayGame = <<>>
    /\ analysisResults = <<>>
    /\ data = NotFound
    /\ dataAfter = NotFound
    /\ moveResult = NoMove
    /\ evalChange = 0
    /\ requests = <<>>
    /\ recordPly = <<>>
    /\ unavailable = {}
    /\ rejected = {}
    /\ analysis = <<>>
    /\ isAnalyzing = FALSE
    /\ gameSummary = ""
    /\ spacing = <<>>
    /\ resultGame = NoResultGame
    /\ prompt = NoPrompt
    /\ summaryStatus = "none"
    /\ showAnalysis = FALSE
    /\ orphans = <<>>
    /\ closedRequests = {}
    /\ TutorMounted
    /\ BoardsMounted

NextPanel ==
    \/ HandleGameComplete
    \/ ClosePanel
    \/ StartAnalysis
    \/ \E resp \in PanelResponses : BeforeResponse(resp)
    \/ \E resp \in PanelResponses : AfterResponse(resp)
    \/ PaceElapsed
    \/ \E outcome \in SummaryOutcomes : SummaryResponse(outcome)
    \/ \E n \in DOMAIN orphans : \E resp \in PanelResponses : OrphanBeforeResponse(n, resp)
    \/ \E n \in DOMAIN orphans : \E resp \in PanelResponses : OrphanAfterResponse(n, resp)
    \/ \E n \in DOMAIN orphans : OrphanPaceElapsed(n)

SpecPanel == InitPanel /\ [][NextPanel]_vars

(***************************************************************************)
(* The tutor specification: ChessAiTutor, its hint button, its worker.     *)
(* A line of the worker is the sequence of its blank-separated parts.      *)
(***************************************************************************)
MaxSearches == 2
MaxHints == 2

\* JavaScript's NaN, kept apart from every number a line can hold
NaN == 0 - 999999

\* the lines the worker sends while it searches
InfoLines ==
    { <<"info", "depth", "15", "multipv", "1", "score", "cp", "30", "pv", "e2e4", "e7e5">>,
      <<"info", "depth", "14", "multipv", "1", "score", "cp", "10", "pv", "e2e4", "e7e5">>,
      <<"info", "depth", "15", "multipv", "2", "score", "cp", "10", "pv", "d2d4", "d7d5">>,
      <<"info", "depth", "15", "multipv", "1", "score", "mate", "3", "pv", "d1h5">>,
      <<"info", "depth", "15", "multipv", "2", "score", "mate", "5", "pv", "g1f3">>,
      <<"info", "depth", "15", "currmove", "e2e4", "currmovenumber", "1">> }

\* the line that ends a search
BestMoveLine == <<"bestmove", "e2e4", "ponder", "e7e5">>

\* parseInt on the parts that occur
ParseInt(part) ==
    CASE part = "1" -> 1 [] part = "2" -> 2 [] part = "3" -> 3 [] part = "5" -> 5
      [] part = "10" -> 10
      [] part = "14" -> 14 [] part = "15" -> 15 [] part = "30" -> 30 [] OTHER -> NaN

\* message.includes(word), for the words 'info' and 'pv'
Includes(message, word) ==
    \E k \in 1..Len(message) :
        \/ message[k] = word
        \/ word = "pv" /\ message[k] = "multipv"

\* parts.indexOf(word)
IndexOf(parts, word) ==
    IF \E k \in 1..Len(parts) : parts[k] = word
    THEN (CHOOSE k \in 1..Len(parts) :
            parts[k] = word /\ \A j \in 1..(k - 1) : parts[j] # word) - 1
    ELSE -1

\* parts[n]
At(parts, n) == IF n + 1 \in 1..Len(parts) THEN parts[n + 1] ELSE Undefined

\* the comparator (a, b) => b.score - a.score orders q consistently: no score
\* is NaN, or the comparator answers 0 or NaN for every pair
Consistent(q) ==
    \/ \A k \in 1..Len(q) : q[k].score # NaN
    \/ \A j, k \in 1..Len(q) : q[j].score = NaN \/ q[k].score = NaN \/ q[j].score = q[k].score

Orders(q) ==
    { [k \in 1..Len(q) |-> q[f[k]]] :
        f \in { g \in [1..Len(q) -> 1..Len(q)] :
                   \A j, k \in 1..Len(q) : j # k => g[j] # g[k] } }

\* [...prev, m].sort((a, b) => b.score - a.score), a stable sort
InsertByScore(sorted, m) ==
    LET before == SelectSeq(sorted, LAMBDA x : x.score >= m.score)
        after == SelectSeq(sorted, LAMBDA x : x.score < m.score)
    IN before \o <<m>> \o after

RECURSIVE SortByScore(_)
SortByScore(q) ==
    IF q = <<>> THEN <<>>
    ELSE InsertByScore(SortByScore(SubSeq(q, 1, Len(q) - 1)), q[Len(q)])

\* the arrays q.sort(comparator) can give: the stable order, the array as it
\* is when every comparison answers 0 or NaN, and an order the language
\* leaves to the implementation when the comparator is not consistent
SortOutcomes(q) ==
    IF \A k \in 1..Len(q) : q[k].score # NaN THEN {SortByScore(q)}
    ELSE IF Consistent(q) THEN {q}
    ELSE Orders(q)

\* the updater passed to setTopMoves: the values it can return
AddTopMove(prev, m) ==
    IF (\A k \in 1..Len(prev) : prev[k].move # m.move) /\ Len(prev) < 5
    THEN SortOutcomes(Append(prev, m))
    ELSE {prev}

\* the values of topMoves after handleStockfishMessage(message)
HandleStockfishMessage(prev, message) ==
    IF Includes(message, "info") /\ Includes(message, "pv")
    THEN LET pvIndex == IndexOf(message, "pv")
             scoreIndex == IF IndexOf(message, "cp") # -1 THEN IndexOf(message, "cp")
                           ELSE IndexOf(message, "mate")
             depthIndex == IndexOf(message, "depth")
         IN IF pvIndex # -1 /\ scoreIndex # -1
            THEN AddTopMove(prev, [move |-> At(message, pvIndex + 1),
                                   score |-> ParseInt(At(message, scoreIndex + 1)),
                                   depth |-> IF depthIndex # -1
                                             THEN ParseInt(At(message, depthIndex + 1))
                                             ELSE 0])
            ELSE {prev}
    ELSE {prev}

\* variant: a call made while a search is in flight returns without posting
AnalyzePositionWhenIdle ==
    /\ requested' = requested + 1
    /\ IF ~stockfish \/ tutorIsAnalyzing \/ inFlight # <<>>
       THEN UNCHANGED <<tutorIsAnalyzing, inFlight, posted>>
       ELSE /\ tutorIsAnalyzing' = TRUE
            /\ inFlight' = Append(inFlight, requested + 1)
            /\ posted' = Append(posted, requested + 1)

\* analyzePosition: the guard, the two commands, the 3000 ms timer
AnalyzePosition ==
    /\ requested' = requested + 1
    /\ IF ~stockfish \/ tutorIsAnalyzing
       THEN UNCHANGED <<tutorIsAnalyzing, inFlight, posted>>
       ELSE /\ tutorIsAnalyzing' = TRUE
            /\ inFlight' = Append(inFlight, requested + 1)
            /\ posted' = Append(posted, requested + 1)

pageVars == <<panelVars, orphans, closedRequests, boardVars>>

\* topMoves.slice(0, 3), with the topMoves of the render that was clicked
Slice3(q) == SubSeq(q, 1, IF Len(q) < 3 THEN Len(q) ELSE 3)

\* a click on the hint button: handleHintRequest and getPositionAnalysis up
\* to its first await or, with moves at hand, up to its fetch
HintRequest ==
    /\ ~isLoading /\ ~tutorIsAnalyzing
    /\ Len(hints) < MaxHints
    /\ IF topMoves = <<>>
       THEN /\ requested < MaxSearches
            /\ AnalyzePosition
            /\ hints' = Append(hints, [pc |-> "waiting", timer |-> tutorIsAnalyzing',
                                       lines |-> Slice3(topMoves),
                                       search |-> IF tutorIsAnalyzing' THEN requested' ELSE 0])
            /\ UNCHANGED isLoading
       ELSE /\ isLoading' = TRUE
            /\ hints' = Append(hints, [pc |-> "awaitTutor", timer |-> FALSE,
                                       lines |-> Slice3(topMoves), search |-> 0])
            /\ UNCHANGED <<tutorIsAnalyzing, inFlight, requested, posted>>
    /\ UNCHANGED <<stockfish, topMoves, fed, pageVars>>

\* the 3000 ms timer of analyzePosition fires
AnalysisTimer(h) ==
    /\ hints[h].timer
    /\ tutorIsAnalyzing' = FALSE
    /\ hints' = [hints EXCEPT ![h].timer = FALSE]
    /\ UNCHANGED <<stockfish, isLoading, topMoves, inFlight, requested, posted, fed, pageVars>>

\* the 3500 ms wait of getPositionAnalysis ends, the tutor request is sent
WaitElapsed(h) ==
    /\ hints[h].pc = "waiting"
    /\ ~hints[h].timer
    /\ isLoading' = TRUE
    /\ hints' = [hints EXCEPT ![h].pc = "awaitTutor"]
    /\ UNCHANGED <<stockfish, tutorIsAnalyzing, topMoves, inFlight, requested, posted,
                   fed, pageVars>>

\* the tutor request of getPositionAnalysis settles
TutorResponse(h, ok) ==
    /\ hints[h].pc = "awaitTutor"
    /\ topMoves' = IF ok THEN <<>> ELSE topMoves
    /\ isLoading' = FALSE
    /\ hints' = RemoveAt(hints, h)
    /\ UNCHANGED <<stockfish, tutorIsAnalyzing, inFlight, requested, posted, fed, pageVars>>

\* the worker sends a line of the search it is working on
WorkerInfo(message) ==
    /\ inFlight # <<>>
    /\ topMoves' \in HandleStockfishMessage(topMoves, message)
    /\ UNCHANGED <<stockfish, tutorIsAnalyzing, isLoading, hints, inFlight, requested,
                   posted, fed, pageVars>>

\* the worker ends a search
WorkerBestMove ==
    /\ inFlight # <<>>
    /\ inFlight' = Tail(inFlight)
    /\ topMoves' \in HandleStockfishMessage(topMoves, BestMoveLine)
    /\ UNCHANGED <<stockfish, tutorIsAnalyzing, isLoading, hints, requested, posted,
                   fed, pageVars>>

InitTutor ==
    /\ moves = SummaryGame(1)
    /\ strictMove = FALSE
    /\ pc = "idle"
    /\ i = 0
    /\ replayGame = <<>>
    /\ analysisResults = <<>>
    /\ data = NotFound
    /\ dataAfter = NotFound
    /\ moveResult = NoMove
    /\ evalChange = 0
    /\ requests = <<>>
    /\ recordPly = <<>>
    /\ unavailable = {}
    /\ rejected = {}
    /\ analysis = <<>>
    /\ isAnalyzing = FALSE
    /\ gameSummary = ""
    /\ spacing = <<>>
    /\ resultGame = NoResultGame
    /\ prompt = NoPrompt
    /\ summaryStatus = "none"
    /\ showAnalysis = FALSE
    /\ orphans = <<>>
    /\ closedRequests = {}
    /\ TutorMounted
    /\ BoardsMounted

\* a line that no search sends: its score does not parse
BadScoreLine ==
    <<"info", "depth", "15", "multipv", "1", "score", "cp", "none", "pv", "b1c3">>

ParserLines == InfoLines \cup {BadScoreLine, BestMoveLine}

MaxFed == 3

\* sf.onmessage: one line is handed to handleStockfishMessage
OnMessage(message) ==
    /\ Len(fed) < MaxFed
    /\ fed' = Append(fed, message)
    /\ topMoves' \in HandleStockfishMessage(topMoves, message)
    /\ UNCHANGED <<stockfish, tutorIsAnalyzing, isLoading, hints, inFlight, requested,
                   posted, pageVars>>

NextParser == \E message \in ParserLines : OnMessage(message)

SpecParser == InitTutor /\ [][NextParser]_vars

NextTutor ==
    \/ HintRequest
    \/ \E h \in DOMAIN hints : AnalysisTimer(h)
    \/ \E h \in DOMAIN hints : WaitElapsed(h)
    \/ \E h \in DOMAIN hints : \E ok \in BOOLEAN : TutorResponse(h, ok)
    \/ \E message \in InfoLines : WorkerInfo(message)
    \/ WorkerBestMove

SpecTutor == InitTutor /\ [][NextTutor]_vars

(***************************************************************************)
(* The game specification: ChessTutorGame, the human against the engine.   *)
(***************************************************************************)
aroundGame == <<panelVars, orphans, closedRequests, tutorVars, trainerVars>>

\* the last two handlers, after handler op
Push(op) == IF Len(lastOps) < 2 THEN Append(lastOps, op) ELSE <<lastOps[2], op>>

\* setGame(gameCopy); setFen(...); setFenHistory(prev => [...prev, fen]);
\* setRedoStack([]), and the effect of the render that follows
MoveApplied(gameCopy) ==
    /\ game' = gameCopy
    /\ fen' = gameCopy
    /\ fenHistory' = Append(fenHistory, gameCopy)
    /\ redoStack' = <<>>
    /\ aiTimer' = Effect(gameCopy, playerColor)
    /\ UNCHANGED <<playerColor, undoSnapshot>>

\* onPieceDrop with a move the rules accept
OnPieceDrop(m) ==
    /\ TurnOf(game) = playerColor
    /\ Len(game) < MaxGamePlies
    /\ MoveApplied(Append(game, m))
    /\ lastOps' = Push("human")
    /\ lastMove' = [kind |-> "human", turn |-> TurnOf(game), playerColor |-> playerColor,
                    over |-> IsGameOver(game), stale |-> FALSE]
    /\ UNCHANGED aroundGame

\* the timer fires: makeAiMove of the render that set it.  The engine gives
\* no move, a move chess.js rejects, or a move that is applied
MakeAiMove(m) ==
    /\ aiTimer.pending
    /\ IF m \in Choices
       THEN /\ Len(aiTimer.game) < MaxGamePlies
            /\ MoveApplied(Append(aiTimer.game, m))
            /\ lastOps' = Push("ai")
            /\ lastMove' = [kind |-> "ai", turn |-> TurnOf(game), playerColor |-> playerColor,
                            over |-> IsGameOver(game), stale |-> aiTimer.game # game]
       ELSE /\ aiTimer' = [aiTimer EXCEPT !.pending = FALSE]
            /\ UNCHANGED <<game, fen, playerColor, redoStack, fenHistory, lastOps,
                           undoSnapshot, lastMove>>
    /\ UNCHANGED aroundGame

HandleNewGame ==
    /\ game' = <<>>
    /\ fen' = <<>>
    /\ playerColor' = "w"
    /\ redoStack' = <<>>
    /\ fenHistory' = << <<>> >>
    /\ aiTimer' = Effect(<<>>, "w")
    /\ lastOps' = Push("new")
    /\ UNCHANGED <<undoSnapshot, lastMove, aroundGame>>

HandleUndo ==
    /\ Len(fenHistory) > 2
    /\ LET n == Len(fenHistory)
           previousFen == fenHistory[n - 2]
           movedUndone == <<fenHistory[n], fenHistory[n - 1]>>
       IN /\ redoStack' = movedUndone \o redoStack
          /\ fenHistory' = SubSeq(fenHistory, 1, n - 2)
          /\ game' = previousFen
          /\ fen' = previousFen
          /\ aiTimer' = Effect(previousFen, playerColor)
    /\ undoSnapshot' = [fen |-> fen, fenHistory |-> fenHistory, redoStack |-> redoStack]
    /\ lastOps' = Push("undo")
    /\ UNCHANGED <<playerColor, lastMove, aroundGame>>

\* variant: the two positions are put back in the order of the stack
HandleRedoStackOrder ==
    /\ Len(redoStack) >= 2
    /\ LET aiMove == redoStack[1]
           playerMove == redoStack[2]
           remainingStack == SubSeq(redoStack, 3, Len(redoStack))
       IN /\ game' = aiMove
          /\ fen' = aiMove
          /\ fenHistory' = fenHistory \o <<aiMove, playerMove>>
          /\ redoStack' = remainingStack
          /\ aiTimer' = Effect(aiMove, playerColor)
    /\ lastOps' = Push("redo")
    /\ UNCHANGED <<playerColor, undoSnapshot, lastMove, aroundGame>>

HandleRedo ==
    /\ Len(redoStack) >= 2
    /\ LET aiMove == redoStack[1]
           playerMove == redoStack[2]
           remainingStack == SubSeq(redoStack, 3, Len(redoStack))
       IN /\ game' = aiMove
          /\ fen' = aiMove
          /\ fenHistory' = fenHistory \o <<playerMove, aiMove>>
          /\ redoStack' = remainingStack
          /\ aiTimer' = Effect(aiMove, playerColor)
    /\ lastOps' = Push("redo")
    /\ UNCHANGED <<playerColor, undoSnapshot, lastMove, aroundGame>>

HandleSwapSides ==
    /\ playerColor' = IF playerColor = "w" THEN "b" ELSE "w"
    /\ aiTimer' = Effect(game, playerColor')
    /\ lastOps' = Push("swap")
    /\ UNCHANGED <<game, fen, redoStack, fenHistory, undoSnapshot, lastMove, aroundGame>>

NextGame ==
    \/ \E m \in Choices : OnPieceDrop(m)
    \/ \E m \in Choices \cup {0} : MakeAiMove(m)
    \/ HandleNewGame
    \/ HandleUndo
    \/ HandleRedo
    \/ HandleSwapSides

SpecGame == InitTutor /\ [][NextGame]_vars

(***************************************************************************)
(* The trainer specification: ChessTutor, the human against a random mover.*)
(***************************************************************************)
MaxReplies == 2

aroundTrainer == <<panelVars, orphans, closedRequests, tutorVars, gameVars>>

\* onDrop with a move the rules accept: the move is made for the side to
\* move, the reply is scheduled
OnDrop(m) ==
    /\ Len(trainerGame) < MaxGamePlies
    /\ pendingReplies < MaxReplies
    /\ trainerGame' = Append(trainerGame, m)
    /\ trainerFen' = trainerGame'
    /\ pendingReplies' = pendingReplies + 1
    /\ humanMoved' = humanMoved \cup {TurnOf(trainerGame)}
    /\ UNCHANGED <<randomMoved, aroundTrainer>>

\* a timer of onDrop fires: makeRandomMove on the game as it is now
MakeRandomMove(m) ==
    /\ pendingReplies > 0
    /\ pendingReplies' = pendingReplies - 1
    /\ IF IsGameOver(trainerGame) \/ Len(trainerGame) >= MaxGamePlies
       THEN UNCHANGED <<trainerGame, trainerFen, randomMoved>>
       ELSE /\ trainerGame' = Append(trainerGame, m)
            /\ trainerFen' = trainerGame'
            /\ randomMoved' = randomMoved \cup {TurnOf(trainerGame)}
    /\ UNCHANGED <<humanMoved, aroundTrainer>>

\* resetGame: game.reset(); the timers are left alone
ResetGame ==
    /\ trainerGame' = <<>>
    /\ trainerFen' = <<>>
    /\ UNCHANGED <<pendingReplies, humanMoved, randomMoved, aroundTrainer>>

NextTrainer ==
    \/ \E m \in Choices : OnDrop(m)
    \/ \E m \in Choices : MakeRandomMove(m)
    \/ ResetGame

SpecTrainer == InitTutor /\ [][NextTrainer]_vars

(***************************************************************************)
(* Properties.                                                             *)
(***************************************************************************)
Last(s) == s[Len(s)]

\* the local evalBefore / evalAfter / bestMoveUci / actualMoveUci of the ply
\* that has just been classified (the run is in its pacing delay)
Classified == pc = "pacing"
evalBefore == CpOrZero(data)
evalAfter == CpOrZero(dataAfter)
bestMoveUci == FirstMove(data)
actualMoveUci == ActualMoveUci(moveResult)

\* signedDelta as the specification defines it: the change of the evaluation
\* in the mover's own favour
SignedDelta ==
    IF moveResult.color = "w" THEN evalAfter - evalBefore ELSE evalBefore - evalAfter

LastRecord == Last(analysisResults)

\* C1: when the played move is not the engine-best move, the tier is decided
\* top-down by signedDelta with inclusive bounds: great from -10 up, good from
\* -40 to -11, inaccuracy from -100 to -41, mistake from -200 to -101, blunder
\* below -200; a signedDelta >= 0 is never worse than good.
C1_TierBySignedDelta ==
    (Classified /\ bestMoveUci # actualMoveUci) =>
        LET t == LastRecord.classification
            sd == SignedDelta
        IN /\ t \in {"great", "good", "inaccuracy", "mistake", "blunder"}
           /\ (t = "great") = (sd >= -10)
           /\ (t = "good") = (sd <= -11 /\ sd >= -40)
           /\ (t = "inaccuracy") = (sd <= -41 /\ sd >= -100)
           /\ (t = "mistake") = (sd <= -101 /\ sd >= -200)
           /\ (t = "blunder") = (sd <= -201)
           /\ (sd >= 0 => t \in {"great", "good"})

\* Black played a move that is not the engine's and lost 11 centipawns: good
C1_Witness ==
    /\ Classified
    /\ bestMoveUci # actualMoveUci
    /\ moveResult.color = "b"
    /\ SignedDelta = -11
    /\ LastRecord.classification = "good"

\* C2: a played move equal to the best move reported for the position before
\* it is tiered brilliant whatever signedDelta is, and a move is never tiered
\* brilliant when no best move was reported for the position before.
C2_BestMoveIsBrilliant ==
    Classified =>
        /\ (bestMoveUci = actualMoveUci => LastRecord.classification = "brilliant")
        /\ (data.pvs = <<>> => LastRecord.classification # "brilliant")

\* the engine's move was played and the evaluation fell by more than two pawns
C2_Witness ==
    /\ Classified
    /\ bestMoveUci = actualMoveUci
    /\ SignedDelta < -200
    /\ LastRecord.classification = "brilliant"

\* C3: for a game with no illegal moves the finished report has one record
\* per input move, whatever evaluation requests fail.
C3_FullLength ==
    (pc \in {"awaitSummary", "done"} /\ \A k \in 1..Len(moves) : moves[k].legal)
        => Len(analysis) = Len(moves)

\* the iteration of ply k is over
Processed(k) == k < i \/ (k = i /\ pc = "pacing")

Degraded(r) == r.evaluation = 0 /\ r.classification = "good" /\ r.comment = Undefined

\* C4: when an evaluation of ply k is unavailable (throws, non-success
\* status, no variation list), the record emitted for ply k has evaluation 0,
\* tier good and no annotation.
C4_DegradedRecord ==
    \A k \in unavailable :
        Processed(k) =>
            \E r \in 1..Len(recordPly) :
                recordPly[r] = k /\ Degraded(analysisResults[r])

\* C5: once the rules oracle has rejected the move of ply k the replay stops:
\* no record is produced for ply k or a later ply, and no evaluation request
\* follows the rejection (the only request of ply k is the one for the
\* position before the move, issued before the move was tried).
C5_ReplayStops ==
    \A k \in rejected :
        /\ \A r \in 1..Len(requests) : requests[r][1] <= k
        /\ \A r \in 1..Len(recordPly) : recordPly[r] < k

\* C6: the signedDelta used for tiering is (evalAfter - evalBefore) taken as
\* it is for White and negated for Black; for both colours it is negative
\* exactly when the evaluation moved against the mover.
C6_SignedDelta ==
    Classified =>
        /\ evalChange = SignedDelta
        /\ (evalChange < 0) =
              (IF moveResult.color = "w" THEN evalAfter < evalBefore
                                        ELSE evalAfter > evalBefore)

\* Black moved and the evaluation rose in White's favour
C6_Witness ==
    /\ Classified
    /\ moveResult.color = "b"
    /\ evalAfter > evalBefore
    /\ evalChange < 0

IsMate(d) == d.pvs # <<>> /\ Head(d.pvs).score = "mate"

\* C7: an evaluation that carries mate-in-N is converted to a signed
\* magnitude above every finite threshold, with the sign of the mating side;
\* it is never taken as 0 or as N centipawns.
C7_MateDominates ==
    (Classified /\ IsMate(dataAfter)) =>
        LET n == Head(dataAfter.pvs).value
            e == LastRecord.evaluation
        IN /\ e # 0
           /\ e # n
           /\ Abs(e) > 200
           /\ (e > 0) = (n > 0)

\* C8: the record of a classified ply carries an annotation exactly when its
\* signedDelta is below -100.
C8_AnnotationBelowMinus100 ==
    Classified => ((LastRecord.comment # Undefined) = (SignedDelta < -100))

\* a loss of 101 centipawns is annotated
C8_Witness ==
    /\ Classified
    /\ SignedDelta = -101
    /\ LastRecord.comment # Undefined
    /\ LastRecord.classification = "mistake"

\* C9: the pawns of the annotation are |signedDelta| / 100 rounded half-up:
\* a signedDelta of -(100k + 50) gives k + 1, so -250 gives "Lost 3 pawns
\* of advantage".
C9_RoundHalfUp ==
    Classified =>
        \A k \in 1..(MaxCpAfter \div 100) :
            SignedDelta = -(100 * k + 50) =>
                LastRecord.comment = "Lost " \o ToString(k + 1) \o " pawns of advantage"

\* C10: the k-th record of the list is the record of the k-th input move.
C10_PlyOrder ==
    \A k \in 1..Len(analysisResults) :
        /\ recordPly[k] = k - 1
        /\ analysisResults[k].move = moves[k].san


(***************************************************************************)
(* The run as a whole: pacing, progress, the summary.                      *)
(***************************************************************************)
Tiers == {"brilliant", "great", "good", "inaccuracy", "mistake", "blunder"}

RECURSIVE SumOver(_, _)
SumOver(f, S) ==
    IF S = {} THEN 0
    ELSE LET t == CHOOSE x \in S : TRUE IN f[t] + SumOver(f, S \ {t})

SideNotToMove(g) == IF Turn(g) = "w" THEN "Black" ELSE "White"

SummaryFailed == pc = "done" /\ summaryStatus \in {"throw", "error"}

KeyPlies == {k \in 1..Len(analysis) :
                analysis[k].classification \in {"mistake", "blunder", "brilliant"}}

\* C11: the key moments handed to the narrative generator are the first five
\* records, in ply order, whose tier is mistake, blunder or brilliant (all of
\* them when there are fewer): never more than five, never another tier.
C11_KeyMoments ==
    pc = "awaitSummary" =>
        LET km == prompt.keyMoments IN
        /\ Len(km) = (IF Cardinality(KeyPlies) < 5 THEN Cardinality(KeyPlies) ELSE 5)
        /\ \A j \in 1..Len(km) :
              /\ km[j].classification \in {"mistake", "blunder", "brilliant"}
              /\ \E k \in KeyPlies :
                    /\ Cardinality({x \in KeyPlies : x < k}) = j - 1
                    /\ km[j].moveNumber = analysis[k].moveNumber
                    /\ km[j].move = analysis[k].move
                    /\ km[j].classification = analysis[k].classification

C11_Witness ==
    /\ pc = "awaitSummary"
    /\ Cardinality(KeyPlies) > 5
    /\ Len(prompt.keyMoments) = 5
    /\ \E k \in 1..5 : k \notin KeyPlies
    /\ \E t \in {"mistake", "blunder", "brilliant"} :
          \E j \in 1..5 : prompt.keyMoments[j].classification = t

\* C12: every evaluation request but the first of a run is issued only after
\* the pacing interval has elapsed since the previous evaluation answer,
\* the after-request of a ply and the request after a failed ply included.
C12_PacedRequests == \A r \in 2..Len(requests) : spacing[r]

\* the evaluation requests that have been sent and not yet answered
Outstanding ==
    (IF Requesting(pc) THEN 1 ELSE 0)
    + Cardinality({n \in DOMAIN orphans : Requesting(orphans[n].pc)})

\* C13: at most one evaluation request is outstanding at any time, whatever
\* the sequence of Start Analysis clicks, panel closings and reopenings.
C13_OneOutstanding == Outstanding <= 1

\* C14: while the run is in progress, once a ply has been processed the
\* processed-ply count shown to the user is the number of plies processed.
C14_ProgressCount == (isAnalyzing /\ pc = "pacing") => Len(analysis) = i + 1

\* C15: once the panel has been closed, the run issues no evaluation request
\* for a ply later than the one it was at.
C15_NoRequestAfterClose == \A e \in closedRequests : e[2] <= e[1]

\* C16: after a failed narrative request the published report is the complete
\* list of records produced and the summary prose is empty.
C16_ProseEmptyOnFailure ==
    SummaryFailed => /\ analysis = analysisResults
                     /\ gameSummary \in {"", Undefined}

\* C17: the outcome label is computed from the position after all input
\* moves: checkmate names the side not to move as the winner, otherwise a
\* draw is "Draw", otherwise the game is unresolved; one label is produced.
C17_OutcomeLabel ==
    pc = "awaitSummary" =>
        /\ resultGame.history \in ReplayAll(<<>>, 0)
        /\ resultGame.isCheckmate =>
              prompt.result = "Checkmate - " \o SideNotToMove(resultGame.history) \o " wins"
        /\ (~resultGame.isCheckmate /\ resultGame.isDraw) => prompt.result = "Draw"
        /\ (~resultGame.isCheckmate /\ ~resultGame.isDraw) => prompt.result = "Game Over"

C17_Witness ==
    /\ pc = "awaitSummary"
    /\ resultGame.isCheckmate
    /\ Len(resultGame.history) = 1
    /\ prompt.result = "Checkmate - White wins"

\* C18: the aggregate posted to the narrative generator has a count for each
\* quality tier, each the number of records of that tier, and the counts add
\* up to the number of records.
C18_TierCounts ==
    pc = "awaitSummary" =>
        /\ \A t \in Tiers : /\ t \in DOMAIN prompt.counts
                            /\ prompt.counts[t] = CountTier(analysis, t)
        /\ SumOver(prompt.counts, DOMAIN prompt.counts) = Len(analysis)

(***************************************************************************)
(* The tutor's searches.                                                   *)
(***************************************************************************)
\* C19: the worker has at most one search in flight: no search command is
\* posted between the posting of a search and its completion line.
C19_OneSearchInFlight == Len(inFlight) <= 1

C21_OneHint == Len(hints) <= 1

(***************************************************************************)
(* The retained engine lines.                                              *)
(***************************************************************************)
\* an info line that reports a principal variation at a rank
Ranked(line) ==
    /\ IndexOf(line, "info") # -1
    /\ IndexOf(line, "multipv") # -1
    /\ IndexOf(line, "pv") # -1

Rank(line) == ParseInt(At(line, IndexOf(line, "multipv") + 1))

LineMove(line) == At(line, IndexOf(line, "pv") + 1)

LineScore(line) ==
    ParseInt(At(line, 1 + (IF IndexOf(line, "cp") # -1 THEN IndexOf(line, "cp")
                           ELSE IndexOf(line, "mate"))))

LineDepth(line) == ParseInt(At(line, IndexOf(line, "depth") + 1))

EntryOf(line) == [move |-> LineMove(line), score |-> LineScore(line), depth |-> LineDepth(line)]

\* the lines received so far that report a rank
RankedFed == {k \in 1..Len(fed) : Ranked(fed[k])}

\* every ranked line received so far has a score that parses
AllScoresParse == \A k \in RankedFed : LineScore(fed[k]) # NaN

\* the last line received for rank r
LastAtRank(r) ==
    fed[CHOOSE k \in RankedFed :
            Rank(fed[k]) = r /\ \A j \in RankedFed : Rank(fed[j]) = r => j <= k]

\* the rank of the line a retained entry came from
RankOfEntry(e) ==
    Rank(fed[CHOOSE k \in RankedFed : LineMove(fed[k]) = e.move])

\* C22: after any sequence of info lines there is one retained entry per rank
\* received, and it is the last line received for that rank.
C22_LatestPerRank ==
    AllScoresParse =>
        /\ Len(topMoves) = Cardinality({Rank(fed[k]) : k \in RankedFed})
        /\ \A k \in RankedFed :
              \E j \in 1..Len(topMoves) : topMoves[j] = EntryOf(LastAtRank(Rank(fed[k])))

\* C23: the retained lines are ordered by rank ascending whatever the order
\* of arrival and whatever the kinds of score.
C23_RankAscending ==
    AllScoresParse =>
        \A j, k \in 1..Len(topMoves) :
            j < k => RankOfEntry(topMoves[j]) <= RankOfEntry(topMoves[k])

\* C24: an info line whose score does not parse as a number adds no entry to
\* the retained lines.
C24_BadScoreDropped == \A j \in 1..Len(topMoves) : topMoves[j].score # NaN

\* C25: the lines used to answer a hint come from a search started for that
\* hint; a hint that started no search uses no retained lines.
C25_LinesOfOwnSearch ==
    \A h \in 1..Len(hints) : hints[h].lines # <<>> => hints[h].search # 0

(***************************************************************************)
(* A failed evaluation before the move.                                    *)
(***************************************************************************)
\* the run is at ply i and the request for the position before ply i - 1,
\* a move the rules accept, threw
BeforeFailed ==
    /\ pc = "awaitBefore"
    /\ i >= 1
    /\ data.kind = "throw"
    /\ moves[i].legal

\* C26: when the request for the position before a ply throws, the move of the
\* ply is applied all the same: the record of the ply carries the position
\* after the move and the next ply is requested from that position.
C26_MoveAppliedOnFailure ==
    BeforeFailed =>
        /\ replayGame # <<>>
        /\ Last(replayGame) = i
        /\ analysisResults # <<>>
        /\ Last(analysisResults).fen = Fen(replayGame)
        /\ Last(requests) = <<i, Fen(replayGame)>>

(***************************************************************************)
(* ChessTutorGame.                                                         *)
(***************************************************************************)
\* C27: every Undo leaves a position in which the player's colour is to move.
C27_UndoLeavesHumanToMove ==
    (lastOps # <<>> /\ Last(lastOps) = "undo") => TurnOf(game) = playerColor

\* C28: Undo followed at once by Redo restores the displayed position, the
\* position history and the redo stack; the displayed position is always the
\* last of the position history, the redo stack always holds an even number
\* of positions, and a new human or AI move empties it.
C28_UndoRedo ==
    /\ fen = Last(fenHistory)
    /\ Len(redoStack) % 2 = 0
    /\ lastOps = <<"undo", "redo">> =>
          /\ fen = undoSnapshot.fen
          /\ fenHistory = undoSnapshot.fenHistory
          /\ redoStack = undoSnapshot.redoStack
    /\ (lastOps # <<>> /\ Last(lastOps) \in {"human", "ai"}) => redoStack = <<>>

C28_Witness ==
    /\ lastOps = <<"undo", "redo">>
    /\ redoStack # <<>>
    /\ Len(fenHistory) >= 3

\* C29: a human move is applied only when the player's colour is to move, an
\* AI move only when the game is not over and the other colour is to move,
\* both in the position current when the move is applied; a pending AI timer
\* never outlives a change of the position or of the player's colour.
C29_MoveGuards ==
    /\ lastMove.kind = "human" => lastMove.turn = lastMove.playerColor
    /\ lastMove.kind = "ai" =>
          /\ ~lastMove.over
          /\ lastMove.turn # lastMove.playerColor
          /\ ~lastMove.stale
    /\ aiTimer.pending => (aiTimer.game = game /\ aiTimer.playerColor = playerColor)

C29_Witness ==
    /\ lastMove.kind = "ai"
    /\ lastMove.playerColor = "b"
    /\ lastOps = <<"swap", "ai">>
    /\ aiTimer.pending = FALSE

(***************************************************************************)
(* ChessTutor.                                                             *)
(***************************************************************************)
\* C30: the human only ever moves White and the random mover only ever moves
\* Black, also when the game is reset or a second piece is dropped before a
\* scheduled reply fires.
C30_WhiteHumanBlackReply ==
    /\ humanMoved \subseteq {"w"}
    /\ randomMoved \subseteq {"b"}

====
